---- MODULE Spec2Model ----
(***************************************************************************)
(* Model of clean.py: the gap-detection and interpolation engine that      *)
(* repairs missing rows of the pumpfuse log held in a Google Sheet.        *)
(*                                                                         *)
(* Units.  Deltas are hours with two decimals in the sheet; the model      *)
(* holds them as integers in hundredths of an hour.  Timestamps are whole  *)
(* seconds.  The baseline sum(prev_deltas) / DELTA_AVG_WINDOW is kept as   *)
(* the exact rational  sum / DELTA_AVG_WINDOW ; every comparison of the    *)
(* code is cross-multiplied, so no precision is lost.  The code computes   *)
(* in doubles: where the two sides of its tolerance test are equal as      *)
(* rationals, LessInDouble gives what the doubles give.  The sleep of      *)
(* 1.2 s is 12 tenths of a second.                                         *)
(*                                                                         *)
(* Indices.  The code's list `data` is 0-based and the sheet's positions   *)
(* are 1-based; At(data, i) reads data[i] with the code's index and the    *)
(* store operations take the sheet's positions.                            *)
(*                                                                         *)
(* Specifications.  Spec is the script clean.py from its start; TolSpec is *)
(* one evaluation of clean_sheet over a range of baselines and deltas;     *)
(* ColSpec is the column-letter loop of import.py.                         *)
(***************************************************************************)
EXTENDS Integers, Sequences, FiniteSets, TLC

VARIABLES
    sheet,          \* the remote worksheet: the cells as stored
    data,           \* the in-memory snapshot, sheet.get_all_values()
    pc,             \* position of the process
    run,            \* "first" invocation of the script, or the next on the same sheet:
                    \* "second" after the end of the first, "resumed" after its cancellation
    start_row,      \* the command-line argument
    row,            \* the scan cursor (0-based index into data)
    rows_to_insert, \* planner's counters
    update_ops,
    rows_added,     \* clean_sheet's counters
    write_ops,
    n_missing,      \* the gap being repaired
    sum_deltas,     \*   sum(prev_deltas) of its baseline
    prev_ts,        \*   timestamp of the row before the cursor
    n,              \*   loop variable of the insert loop
    clock,          \* time slept so far in this invocation, tenths of a second
    calls,          \* write calls issued to the store in this invocation
    errlog,         \* clean_errors.log: the failed writes
    reported,       \* n of 'Cleaning complete. Rows added: <n>', -1 before
    sheet0,         \* the store's content when this invocation started
    last,           \* what the latest evaluation of a cursor observed
    argv,           \* the command-line argument, sys.argv[1]
    config,         \* what config.ini and the credentials file hold
    estimated_seconds, \* the planner's predicted duration, tenths of a second
    proceed,        \* the answer to the confirmation prompt, "" before
    exit_status,    \* the exit status of the process, -1 while it runs
    fetches,        \* calls of sheet.get_all_values in this invocation
    num_cols,       \* import.py: the number of columns of the appended range
    cols_n,         \*   n of its column-letter loop (n is the insert number here)
    end_col_char,   \*   the letters built so far, a sequence of one-letter strings
    range_name      \*   the column letters of the range's end, <<>> before

vars == <<sheet, data, pc, run, start_row, row, rows_to_insert, update_ops,
          rows_added, write_ops, n_missing, sum_deltas, prev_ts, n, clock,
          calls, errlog, reported, sheet0, last, argv, config,
          estimated_seconds, proceed, exit_status, fetches,
          num_cols, cols_n, end_col_char, range_name>>

\* the variables of clean.py and those of import.py's column letters
clean_vars == <<sheet, data, pc, run, start_row, row, rows_to_insert, update_ops,
                rows_added, write_ops, n_missing, sum_deltas, prev_ts, n, clock,
                calls, errlog, reported, sheet0, last, argv, config,
                estimated_seconds, proceed, exit_status, fetches>>
import_vars == <<num_cols, cols_n, end_col_char, range_name>>

----------------------------------------------------------------------------
(* Program constants *)

CLEANED_MARK == "cleaned"
DELTA_AVG_WINDOW == 5
\* DELTA_TOLERANCE = 0.2 = DELTA_TOLERANCE_NUM / DELTA_TOLERANCE_DEN
DELTA_TOLERANCE_NUM == 1
DELTA_TOLERANCE_DEN == 5
\* time.sleep(1.2), in tenths of a second
SLEEP_TENTHS == 12
\* estimated_seconds > 300, in tenths of a second
CONFIRM_TENTHS == 3000
\* hours -> seconds, for one hundredth of an hour
SECONDS_PER_CENTIHOUR == 36

----------------------------------------------------------------------------
(* Bounds of the model *)

\* number of rows of the sheet at the start (header included)
MaxRows == 10
\* write calls that the store may reject
MaxFailures == 1
\* the repair of a gap is followed up to its insert number MaxMissing - 1
MaxMissing == 5

----------------------------------------------------------------------------
(* Cells *)

\* A stored cell is blank, a text that is neither a number nor a date, a
\* number (hundredths of an hour), a date (seconds) or the delta formula
\*   =IF(ISDATE(B{v}),ROUND((B{v}-B{w})*24,2),)
\* whose two row references the sheet moves when rows are inserted above.
Blank == [k |-> "blank", v |-> 0, w |-> 0]
Text == [k |-> "text", v |-> 0, w |-> 0]
Num(x) == [k |-> "num", v |-> x, w |-> 0]
Date(s) == [k |-> "date", v |-> s, w |-> 0]
\* a date that the sheet shows in another format than '%Y-%m-%d %H:%M:%S'
DateShownOtherwise(s) == [k |-> "date", v |-> s, w |-> 1]
DeltaFormula(a) == [k |-> "formula", v |-> a, w |-> a - 1]

BlankRow == [B |-> Blank, C |-> Blank, G |-> ""]

Abs(x) == IF x < 0 THEN -x ELSE x

\* num / den rounded to the nearest integer, halves away from zero
RoundHalfAway(num, den) ==
    LET sgn == IF (num < 0) = (den < 0) THEN 1 ELSE -1
        a == Abs(num)
        b == Abs(den)
    IN sgn * ((2 * a + b) \div (2 * b))

\* the sheet's ROUND(hours, 2), in hundredths of an hour, from seconds
SheetRound(seconds) == RoundHalfAway(seconds, SECONDS_PER_CENTIHOUR)

\* a round() that sends halves away from zero
round_half_away(num, den) == RoundHalfAway(num, den)

\* Python's round(num / den): halves go to the even integer
round(num, den) ==
    LET nn == IF den < 0 THEN -num ELSE num
        dd == Abs(den)
        q == nn \div dd
        r == nn - q * dd
    IN IF 2 * r < dd THEN q
       ELSE IF 2 * r > dd THEN q + 1
       ELSE IF q % 2 = 0 THEN q ELSE q + 1

----------------------------------------------------------------------------
(* The store: sheet.get_all_values, sheet.insert_row, sheet.update_cell *)

CellB(sh, p) == IF p \in 1..Len(sh) THEN sh[p].B ELSE Blank

\* the value the sheet shows for a delta cell
FormulaValue(sh, c) ==
    LET a == CellB(sh, c.v)
        b == CellB(sh, c.w)
    IN IF a.k # "date" THEN Blank
       ELSE IF b.k = "date" THEN Num(SheetRound(a.v - b.v))
       ELSE IF b.k = "blank" THEN Num(SheetRound(a.v))
       ELSE Text

ShownC(sh, p) == IF sh[p].C.k = "formula" THEN FormulaValue(sh, sh[p].C) ELSE sh[p].C

ShownRow(sh, p) == [B |-> sh[p].B, C |-> ShownC(sh, p), G |-> sh[p].G]

RECURSIVE LastShown(_, _)
\* the last row that shows anything; get_all_values drops the empty rows after it
LastShown(sh, p) ==
    IF p = 0 THEN 0
    ELSE IF ShownRow(sh, p) # BlankRow THEN p
    ELSE LastShown(sh, p - 1)

get_all_values(sh) == [p \in 1..LastShown(sh, Len(sh)) |-> ShownRow(sh, p)]

PadTo(sh, len) ==
    IF Len(sh) >= len THEN sh
    ELSE sh \o [p \in 1..(len - Len(sh)) |-> BlankRow]

ShiftRef(x, index) == IF x >= index THEN x + 1 ELSE x

ShiftRow(r, index) ==
    IF r.C.k = "formula"
    THEN [r EXCEPT !.C = [k |-> "formula", v |-> ShiftRef(r.C.v, index),
                          w |-> ShiftRef(r.C.w, index)]]
    ELSE r

\* insert_row(values, index): the rows at and after index move down by one
insert_row(sh, values, index) ==
    LET old == PadTo(sh, index - 1)
        moved == [p \in 1..Len(old) |-> ShiftRow(old[p], index)]
    IN SubSeq(moved, 1, index - 1) \o <<values>> \o SubSeq(moved, index, Len(moved))

\* an update that lands one row above the addressed one
update_cell_above(sh, pos, value) ==
    LET old == PadTo(sh, pos)
    IN [old EXCEPT ![pos - 1].C = value]

\* update_cell(pos, 3, value)
update_cell(sh, pos, value) ==
    LET old == PadTo(sh, pos)
    IN [old EXCEPT ![pos].C = value]

----------------------------------------------------------------------------
(* Pure parts of clean_sheet and estimate_rows_to_insert *)

\* data[i], with the code's 0-based index
At(d, i) == d[i + 1]

None == [some |-> FALSE, v |-> 0]
Some(x) == [some |-> TRUE, v |-> x]

get_float(val) == IF val.k = "num" THEN Some(val.v) ELSE None

\* parse_timestamp succeeds on a date shown as '%Y-%m-%d %H:%M:%S' and raises
\* ValueError (None here) on anything else
parse_timestamp(val) == IF val.k = "date" /\ val.w = 0 THEN Some(val.v) ELSE None

RECURSIVE prev_deltas_from(_, _, _)
\* for i in range(lo, hi): if i > 1: ... prev_deltas.append(delta)
prev_deltas_from(d, i, hi) ==
    IF i >= hi THEN <<>>
    ELSE LET delta == IF i > 1 THEN get_float(At(d, i).C) ELSE None
         IN (IF delta.some THEN <<delta.v>> ELSE <<>>) \o prev_deltas_from(d, i + 1, hi)

\* the window moved down by one row: it ends with the cursor's own row
prev_deltas_with_cursor(d, r) == prev_deltas_from(d, r - DELTA_AVG_WINDOW + 1, r + 1)

RECURSIVE prev_deltas_from_first(_, _, _)
\* the loop with i > 0 in place of i > 1
prev_deltas_from_first(d, i, hi) ==
    IF i >= hi THEN <<>>
    ELSE LET delta == IF i > 0 THEN get_float(At(d, i).C) ELSE None
         IN (IF delta.some THEN <<delta.v>> ELSE <<>>)
                \o prev_deltas_from_first(d, i + 1, hi)

prev_deltas_first_row(d, r) == prev_deltas_from_first(d, r - DELTA_AVG_WINDOW, r)

prev_deltas(d, r) == prev_deltas_from(d, r - DELTA_AVG_WINDOW, r)

RECURSIVE sum(_)
sum(s) == IF s = <<>> THEN 0 ELSE Head(s) + sum(Tail(s))

\* n_missing = round(curr_delta / avg_delta), avg_delta = total / DELTA_AVG_WINDOW
NMissing(total, curr_delta) == round(curr_delta * DELTA_AVG_WINDOW, total)

\* the test with n_missing >= 1 in place of n_missing > 1
IsGapFromOne(total, curr_delta, nm) ==
    /\ nm >= 1
    /\ DELTA_TOLERANCE_DEN * Abs(curr_delta * DELTA_AVG_WINDOW - nm * total)
         < DELTA_TOLERANCE_NUM * total * nm

\* The sums of five equal deltas for which the `<` of line 109, a comparison
\* of doubles, is true where its two sides are equal as rationals: baselines
\* of 0.25, 0.5, 1 and 2 hours. For 1 hour and curr_delta 1.6 the left side is
\* 2.0 - 1.6 = 0.3999999999999999 and the right side 0.2 * 1.0 * 2 = 0.4; for
\* the other sums of the inputs explored the doubles are equal too
\* (0.6000000000000001 on both sides for 1.5 hours and 2.4).
TrueAtEquality == {125, 250, 500, 1000}

\* x < y as line 109 evaluates it for a window whose deltas sum to total
LessInDouble(x, y, total) == x < y \/ (x = y /\ total \in TrueAtEquality)

\* n_missing > 1 and abs(curr_delta - n_missing * avg_delta)
\*                   < DELTA_TOLERANCE * avg_delta * n_missing
\* with both sides multiplied by DELTA_AVG_WINDOW * DELTA_TOLERANCE_DEN
IsGap(total, curr_delta, nm) ==
    /\ nm > 1
    /\ LessInDouble(DELTA_TOLERANCE_DEN * Abs(curr_delta * DELTA_AVG_WINDOW - nm * total),
                    DELTA_TOLERANCE_NUM * total * nm, total)

\* One pass of the loop body up to the decision
Evaluate(d, r) ==
    LET pd == prev_deltas(d, r)
        total == sum(pd)
        curr == get_float(At(d, r).C)
        base == [kind |-> "none", row |-> r, avail |-> FALSE, total |-> 0, curr |-> None, n |-> 0]
    IN IF Len(pd) < DELTA_AVG_WINDOW THEN [base EXCEPT !.kind = "no_baseline"]
       ELSE IF ~curr.some
            THEN [base EXCEPT !.kind = "no_delta", !.avail = TRUE, !.total = total]
       ELSE IF total = 0
            THEN [base EXCEPT !.kind = "zero_division", !.avail = TRUE,
                              !.total = total, !.curr = curr]
       ELSE LET nm == NMissing(total, curr.v)
            IN [base EXCEPT !.kind = IF IsGap(total, curr.v, nm) THEN "gap" ELSE "no_gap",
                            !.avail = TRUE, !.total = total, !.curr = curr, !.n = nm]

\* the copy of the loop body in estimate_rows_to_insert
EvaluatePlan(d, r) == Evaluate(d, r)

\* a copy of the loop body whose test reads n_missing >= 1
EvaluateCleanFromOne(d, r) ==
    LET e == Evaluate(d, r)
    IN IF e.kind = "no_gap" /\ IsGapFromOne(e.total, e.curr.v, e.n)
       THEN [e EXCEPT !.kind = "gap"]
       ELSE e

\* the copy of the loop body in clean_sheet
EvaluateClean(d, r) == Evaluate(d, r)

\* row += n_missing whatever the decision
AdvanceByN(kind, nm) == nm

\* row += the number of rows inserted after a gap
AdvanceByInserted(kind, nm) == IF kind = "gap" THEN nm - 1 ELSE 1

\* a cursor that stays where no gap is found
AdvanceOnGapOnly(kind, nm) == IF kind = "gap" THEN nm ELSE 0

\* row += n_missing after a gap, row += 1 otherwise
Advance(kind, nm) == IF kind = "gap" THEN nm ELSE 1

----------------------------------------------------------------------------
(* Inputs *)

\* the usual interval between two readings, and the deltas a log row may
\* show instead (hundredths of an hour; Text is a delta that is no number)
UsualDelta == Num(100)
OddDeltas == {Text, Num(-400), Num(130), Num(202), Num(250), Num(305), Num(450)}
\* how many rows of one log show an odd delta
OddRowCounts == {0, 1, 2}
StartRows == {2, 8}
FirstTimestamp == 24 * 3600

\* the data rows of the log after the first one (0-based indices)
LogRows == 2..(MaxRows - 1)

RECURSIVE TimestampOf(_, _)
\* the time of the reading at index i: each delta is the hours since the row above
TimestampOf(deltas, i) ==
    IF i <= 1 THEN FirstTimestamp
    ELSE TimestampOf(deltas, i - 1)
           + SECONDS_PER_CENTIHOUR * (IF deltas[i].k = "num" THEN deltas[i].v ELSE UsualDelta.v)

\* the sheet of a log: header, first reading (its delta is a stored value, the
\* readings before it were removed), then the readings
SheetOf(deltas) ==
    [p \in 1..MaxRows |->
        IF p = 1 THEN [B |-> Text, C |-> Text, G |-> ""]
        ELSE IF p = 2 THEN [B |-> Date(FirstTimestamp), C |-> UsualDelta, G |-> ""]
        ELSE [B |-> Date(TimestampOf(deltas, p - 1)), C |-> deltas[p - 1], G |-> ""]]

\* A reading logged out of order (a negative delta) makes the baseline a small
\* fraction of the usual one when it meets a long delta in the same log, and
\* the repairs then insert hundreds of rows: such logs are left out.
Explored(deltas) ==
    (\E i \in LogRows : deltas[i].k = "num" /\ deltas[i].v < 0)
        => \A j \in LogRows : deltas[j].k = "num" => deltas[j].v <= UsualDelta.v

Logs ==
    {deltas \in
        UNION {UNION {{[i \in LogRows |-> IF i \in odd THEN f[i] ELSE UsualDelta] :
                          f \in [odd -> OddDeltas]} :
                      odd \in {o \in SUBSET LogRows : Cardinality(o) = c}} :
               c \in OddRowCounts} :
     Explored(deltas)}

\* logs whose odd rows all show 2.02 h
PlainLogs == {deltas \in Logs : \A i \in LogRows : deltas[i] \in {UsualDelta, Num(202)}}

\* deltas of 250 and 251 usual intervals, and the logs with one of them
LongDeltas == {Num(25000), Num(25100)}
LongLogs ==
    {[i \in LogRows |-> IF i = at THEN long ELSE UsualDelta] :
        at \in LogRows, long \in LongDeltas}

\* the rows whose timestamp a log may show in another date format
OtherFormatRows == {6, 8}

\* the sheet with the timestamp of data[i] shown in another date format
ShownOtherwise(sh, i) == [sh EXCEPT ![i + 1].B = DateShownOtherwise(sh[i + 1].B.v)]

\* sys.argv: no argument, an argument that is no integer, an integer
ArgMissing == [k |-> "missing", v |-> 0]
ArgText == [k |-> "text", v |-> 0]
ArgInt(x) == [k |-> "int", v |-> x]
NonPositiveStartRows == {-1, 0}

\* config.ini and the credentials file
Configs == {"ok", "no_section", "no_target_sheet_name", "no_credentials_json",
            "bad_credentials"}

Input(sh, arg, cfg) == [sheet |-> sh, argv |-> arg, config |-> cfg]

\* the invocations explored: every log from two start rows; the plain logs
\* with a timestamp in another format, and from a start row that is not
\* positive; the long gaps; a bad command line or configuration
Inputs ==
    {Input(SheetOf(deltas), ArgInt(start), "ok") :
        deltas \in Logs \cup LongLogs, start \in StartRows}
    \cup {Input(ShownOtherwise(SheetOf(deltas), i), ArgInt(2), "ok") :
            deltas \in PlainLogs, i \in OtherFormatRows}
    \cup {Input(SheetOf(deltas), ArgInt(start), "ok") :
            deltas \in PlainLogs, start \in NonPositiveStartRows}
    \cup {Input(SheetOf([i \in LogRows |-> UsualDelta]), arg, "ok") :
            arg \in {ArgMissing, ArgText}}
    \cup {Input(SheetOf([i \in LogRows |-> UsualDelta]), ArgInt(2), cfg) :
            cfg \in Configs}

\* what the user may type at the prompt, after strip().lower()
Answers == {"y", "n", "yes"}

NoObservation ==
    [who |-> "none", kind |-> "none", row |-> 0, avail |-> FALSE, total |-> 0,
     curr |-> None, n |-> 0, added |-> 0]

\* what an evaluation saw, and rows_added at that moment
Observed(who, e, added) ==
    [who |-> who, kind |-> e.kind, row |-> e.row, avail |-> e.avail,
     total |-> e.total, curr |-> e.curr, n |-> e.n, added |-> added]

\* an entry that leaves out the position
LoggedWithoutPosition(r, op, pos) == [run |-> r, op |-> op, pos |-> 0]

\* the entries of clean_errors.log
Logged(r, op, pos) == [run |-> r, op |-> op, pos |-> pos]

WriteFailures(log) ==
    Cardinality({i \in 1..Len(log) : log[i].op \in {"insert_row", "update_cell"}})

----------------------------------------------------------------------------
(* main *)

\* an interrupt that ends with a failure status
ExitStatusInterruptFails(how) ==
    IF how \in {"usage", "config_error", "interrupted"} THEN 1 ELSE 0

\* the status with which the process ends: sys.exit(1) after a usage or a
\* configuration message, sys.exit(0) when the user declines or interrupts;
\* after the summary, and after main's handler of an unexpected exception,
\* main returns and the interpreter exits with 0
ExitStatus(how) == IF how \in {"usage", "config_error"} THEN 1 ELSE 0

\* an estimate that counts the inserts only
estimate_inserts_only(inserts, updates) == inserts * SLEEP_TENTHS

\* estimated_seconds = total_writes * 1.2, in tenths of a second
estimate_processing_time(inserts, updates) == (inserts + updates) * SLEEP_TENTHS

\* a prompt shown from 300 seconds on
NeedsConfirmationFrom(seconds) == seconds >= CONFIRM_TENTHS

\* the prompt is shown when estimated_seconds > 300
NeedsConfirmation(seconds) == seconds > CONFIRM_TENTHS

\* the process has not ended
Running == pc \in {"main", "plan", "confirm", "clean", "insert", "update"}

\* main, lines 206-208, and estimate_processing_time's read of the sheet
EnterMain(sh, start) ==
    /\ pc' = "plan"
    /\ start_row' = start
    /\ sheet' = sh
    /\ sheet0' = sh
    /\ data' = get_all_values(sh)
    /\ row' = start
    /\ rows_to_insert' = 0
    /\ update_ops' = 0
    /\ rows_added' = 0
    /\ write_ops' = 0
    /\ n_missing' = 0
    /\ sum_deltas' = 0
    /\ prev_ts' = 0
    /\ n' = 0
    /\ clock' = 0
    /\ calls' = 0
    /\ errlog' = errlog
    /\ reported' = -1
    /\ last' = NoObservation
    /\ estimated_seconds' = 0
    /\ proceed' = ""
    /\ exit_status' = -1
    /\ fetches' = 2

\* the process ends in main before the sheet is read
EndEarly(how, logged) ==
    /\ pc' = how
    /\ exit_status' = ExitStatus(how)
    /\ errlog' = IF logged = "" THEN errlog ELSE Append(errlog, Logged(run, logged, 0))
    /\ UNCHANGED <<sheet, data, start_row, row, rows_to_insert, update_ops, rows_added,
                   write_ops, n_missing, sum_deltas, prev_ts, n, clock, calls, reported,
                   sheet0, last, estimated_seconds, proceed>>
    /\ UNCHANGED fetches

\* main, lines 196-206: the argument, read_config, get_gsheet, the first read
Main ==
    /\ pc = "main"
    /\ IF argv.k # "int"
       THEN \* len(sys.argv) != 2, or int() raises ValueError: sys.exit(1)
            EndEarly("usage", "")
       ELSE IF config = "no_section"
       THEN \* read_config: config['google'] raises KeyError: sys.exit(1)
            EndEarly("config_error", "read_config")
       ELSE IF config \in {"no_target_sheet_name", "no_credentials_json"}
       THEN \* line 205: config[...] raises KeyError, caught at line 221
            EndEarly("fatal", "main")
       ELSE IF config = "bad_credentials"
       THEN \* get_gsheet: the connection fails: sys.exit(1)
            EndEarly("config_error", "get_gsheet")
       ELSE EnterMain(sheet, argv.v)
    /\ UNCHANGED <<run, argv, config>>
    /\ UNCHANGED import_vars

Init ==
    \E in \in Inputs :
        /\ run = "first"
        /\ pc = "main"
        /\ argv = in.argv
        /\ config = in.config
        /\ start_row = 0
        /\ sheet = in.sheet
        /\ sheet0 = in.sheet
        /\ data = <<>>
        /\ row = 0
        /\ rows_to_insert = 0
        /\ update_ops = 0
        /\ rows_added = 0
        /\ write_ops = 0
        /\ n_missing = 0
        /\ sum_deltas = 0
        /\ prev_ts = 0
        /\ n = 0
        /\ clock = 0
        /\ calls = 0
        /\ errlog = <<>>
        /\ reported = -1
        /\ last = NoObservation
        /\ estimated_seconds = 0
        /\ proceed = ""
        /\ exit_status = -1
        /\ fetches = 0
        /\ num_cols = 0
        /\ cols_n = 0
        /\ end_col_char = <<>>
        /\ range_name = <<>>

\* the user interrupted the repair of a gap after at least one of its inserts
\* and before the snapshot was fetched again; no write had failed
CancelledInGap ==
    /\ pc = "interrupted"
    /\ last.who = "clean"
    /\ last.kind = "gap"
    /\ last.row = row
    /\ rows_added > last.added
    /\ errlog = <<>>

\* the script is started again on the sheet as the last invocation left it,
\* after its end ("second") or after a cancelled repair ("resumed")
Rerun ==
    /\ pc \in {"done", "fatal"} \/ CancelledInGap
    /\ run = "first"
    /\ run' = IF pc = "interrupted" THEN "resumed" ELSE "second"
    /\ pc' = "main"
    /\ exit_status' = -1
    /\ UNCHANGED <<sheet, data, start_row, row, rows_to_insert, update_ops, rows_added,
                   write_ops, n_missing, sum_deltas, prev_ts, n, clock, calls, errlog,
                   reported, sheet0, last, argv, config, estimated_seconds, proceed>>
    /\ UNCHANGED fetches
    /\ UNCHANGED import_vars

\* SIGINT: handle_sigint prints and calls sys.exit(0); SystemExit passes every
\* `except Exception` of the script
Interrupt ==
    /\ Running
    /\ pc' = "interrupted"
    /\ exit_status' = ExitStatus("interrupted")
    /\ UNCHANGED <<sheet, data, run, start_row, row, rows_to_insert, update_ops,
                   rows_added, write_ops, n_missing, sum_deltas, prev_ts, n, clock,
                   calls, errlog, reported, sheet0, last, argv, config,
                   estimated_seconds, proceed>>
    /\ UNCHANGED fetches
    /\ UNCHANGED import_vars

----------------------------------------------------------------------------
(* estimate_rows_to_insert *)

\* one pass of the while loop
PlanStep ==
    /\ pc = "plan"
    /\ row < Len(data)
    /\ LET e == EvaluatePlan(data, row)
       IN /\ last' = Observed("plan", e, 0)
          /\ IF e.kind = "zero_division"
             THEN \* ZeroDivisionError reaches main's handler, which logs it
                  /\ pc' = "fatal"
                  /\ exit_status' = ExitStatus("fatal")
                  /\ errlog' = Append(errlog, Logged(run, "main", 0))
                  /\ UNCHANGED <<row, rows_to_insert, update_ops>>
             ELSE IF e.kind = "gap"
             THEN /\ rows_to_insert' = rows_to_insert + (e.n - 1)
                  /\ update_ops' = update_ops + 1
                  /\ row' = row + Advance(e.kind, e.n)
                  /\ UNCHANGED <<pc, errlog, exit_status>>
             ELSE /\ row' = row + Advance(e.kind, e.n)
                  /\ UNCHANGED <<pc, errlog, rows_to_insert, update_ops, exit_status>>
    /\ UNCHANGED <<sheet, data, run, start_row, rows_added, write_ops, n_missing,
                   sum_deltas, prev_ts, n, clock, calls, reported, sheet0, argv, config,
                   estimated_seconds, proceed>>
    /\ UNCHANGED fetches
    /\ UNCHANGED import_vars

\* clean_sheet is entered: it reads the sheet
EnterClean ==
    /\ pc' = "clean"
    /\ data' = get_all_values(sheet)
    /\ row' = start_row
    /\ fetches' = fetches + 1

\* the loop ends; main prints the estimate and, unless it has to ask, calls
\* clean_sheet
PlanDone ==
    /\ pc = "plan"
    /\ row >= Len(data)
    /\ estimated_seconds' = estimate_processing_time(rows_to_insert, update_ops)
    /\ IF NeedsConfirmation(estimated_seconds')
       THEN /\ pc' = "confirm"
            /\ UNCHANGED <<data, row, fetches>>
       ELSE EnterClean
    /\ rows_added' = 0
    /\ write_ops' = 0
    /\ UNCHANGED <<sheet, run, start_row, rows_to_insert, update_ops, n_missing,
                   sum_deltas, prev_ts, n, clock, calls, errlog, reported, sheet0, last,
                   argv, config, proceed, exit_status>>
    /\ UNCHANGED import_vars

\* the answer to "Estimated time exceeds 5 minutes. Continue? (y/n)"
Confirm ==
    /\ pc = "confirm"
    /\ \E answer \in Answers :
        /\ proceed' = answer
        /\ IF answer # "y"
           THEN /\ pc' = "aborted"
                /\ exit_status' = ExitStatus("aborted")
                /\ UNCHANGED <<data, row, fetches>>
           ELSE /\ EnterClean
                /\ UNCHANGED exit_status
    /\ UNCHANGED <<sheet, run, start_row, rows_to_insert, update_ops, rows_added,
                   write_ops, n_missing, sum_deltas, prev_ts, n, clock, calls, errlog,
                   reported, sheet0, last, argv, config, estimated_seconds>>
    /\ UNCHANGED import_vars

----------------------------------------------------------------------------
(* clean_sheet *)

\* one pass of the while loop up to the decision
CleanStep ==
    /\ pc = "clean"
    /\ row < Len(data)
    /\ LET e == EvaluateClean(data, row)
           ts == parse_timestamp(At(data, row - 1).B)
       IN /\ last' = Observed("clean", e, rows_added)
          /\ IF e.kind = "zero_division" \/ (e.kind = "gap" /\ ~ts.some)
             THEN \* ZeroDivisionError, or parse_timestamp's ValueError: caught
                  \* and logged at line 145, return 0, and main prints the summary
                  /\ pc' = "done"
                  /\ reported' = 0
                  /\ exit_status' = ExitStatus("done")
                  /\ errlog' = Append(errlog, Logged(run, "clean_sheet", 0))
                  /\ UNCHANGED <<row, n_missing, sum_deltas, prev_ts, n>>
             ELSE IF e.kind = "gap"
             THEN /\ pc' = IF 1 < e.n THEN "insert" ELSE "update"
                  /\ n_missing' = e.n
                  /\ sum_deltas' = e.total
                  /\ prev_ts' = ts.v
                  /\ n' = 1
                  /\ UNCHANGED <<row, reported, errlog, exit_status>>
             ELSE /\ row' = row + Advance(e.kind, e.n)
                  /\ UNCHANGED <<pc, reported, errlog, n_missing, sum_deltas, prev_ts, n,
                                 exit_status>>
    /\ UNCHANGED <<sheet, data, run, start_row, rows_to_insert, update_ops, rows_added,
                   write_ops, clock, calls, sheet0, argv, config, estimated_seconds,
                   proceed>>
    /\ UNCHANGED fetches
    /\ UNCHANGED import_vars

\* the offsets counted from 0: prev_ts + avg_delta * (n - 1)
NewTimestampFromZero(ts, total, k) ==
    ts + (SECONDS_PER_CENTIHOUR * total * (k - 1)) \div DELTA_AVG_WINDOW

\* new_ts = prev_ts + timedelta(hours=avg_delta * n), shown by format_timestamp
\* with whole seconds
NewTimestamp(ts, total, k) ==
    ts + (SECONDS_PER_CENTIHOUR * total * k) \div DELTA_AVG_WINDOW

\* the row of lines 115-120
InsertRow(ts, total, k, insert_row_index) ==
    [B |-> Date(NewTimestamp(ts, total, k)),
     C |-> DeltaFormula(insert_row_index),
     G |-> CLEANED_MARK]

AfterInsert ==
    /\ n' = n + 1
    /\ pc' = IF n + 1 < n_missing THEN "insert" ELSE "update"

\* one pass of the for loop, sheet.insert_row succeeds
InsertOk ==
    /\ pc = "insert"
    /\ n < MaxMissing
    /\ sheet' = insert_row(sheet, InsertRow(prev_ts, sum_deltas, n, row + n), row + n)
    /\ calls' = calls + 1
    /\ clock' = clock + SLEEP_TENTHS
    /\ rows_added' = rows_added + 1
    /\ write_ops' = write_ops + 1
    /\ AfterInsert
    /\ UNCHANGED <<data, run, start_row, row, rows_to_insert, update_ops, n_missing,
                   sum_deltas, prev_ts, errlog, reported, sheet0, last, argv, config,
                   estimated_seconds, proceed, exit_status>>
    /\ UNCHANGED fetches
    /\ UNCHANGED import_vars

\* one pass of the for loop, sheet.insert_row raises: logged, continue
InsertFail ==
    /\ pc = "insert"
    /\ n < MaxMissing
    /\ WriteFailures(errlog) < MaxFailures
    /\ calls' = calls + 1
    /\ errlog' = Append(errlog, Logged(run, "insert_row", row + n))
    /\ AfterInsert
    /\ UNCHANGED <<sheet, data, run, start_row, row, rows_to_insert, update_ops,
                   rows_added, write_ops, n_missing, sum_deltas, prev_ts, clock,
                   reported, sheet0, last, argv, config, estimated_seconds, proceed,
                   exit_status>>
    /\ UNCHANGED fetches
    /\ UNCHANGED import_vars

\* the lines after the update_cell call without line 140
AfterUpdateWithoutRefresh(sh) ==
    /\ sheet' = sh
    /\ calls' = calls + 1
    /\ clock' = clock + SLEEP_TENTHS
    /\ write_ops' = write_ops + 1
    /\ data' = data
    /\ fetches' = fetches
    /\ row' = row + Advance("gap", n_missing)
    /\ pc' = "clean"

\* lines 137-141, after the update_cell call
AfterUpdate(sh) ==
    /\ sheet' = sh
    /\ calls' = calls + 1
    /\ clock' = clock + SLEEP_TENTHS
    /\ write_ops' = write_ops + 1
    /\ data' = get_all_values(sh)
    /\ row' = row + Advance("gap", n_missing)
    /\ pc' = "clean"
    /\ fetches' = fetches + 1

\* sheet.update_cell succeeds
UpdateOk ==
    /\ pc = "update"
    /\ AfterUpdate(update_cell(sheet, row + n_missing, DeltaFormula(row + n_missing)))
    /\ UNCHANGED <<run, start_row, rows_to_insert, update_ops, rows_added, n_missing,
                   sum_deltas, prev_ts, n, errlog, reported, sheet0, last, argv, config,
                   estimated_seconds, proceed, exit_status>>
    /\ UNCHANGED import_vars

\* sheet.update_cell raises: logged
UpdateFail ==
    /\ pc = "update"
    /\ WriteFailures(errlog) < MaxFailures
    /\ AfterUpdate(sheet)
    /\ errlog' = Append(errlog, Logged(run, "update_cell", row + n_missing))
    /\ UNCHANGED <<run, start_row, rows_to_insert, update_ops, rows_added, n_missing,
                   sum_deltas, prev_ts, n, reported, sheet0, last, argv, config,
                   estimated_seconds, proceed, exit_status>>
    /\ UNCHANGED import_vars

\* the while loop ends: return rows_added, main prints the summary
CleanDone ==
    /\ pc = "clean"
    /\ row >= Len(data)
    /\ pc' = "done"
    /\ reported' = rows_added
    /\ exit_status' = ExitStatus("done")
    /\ UNCHANGED <<sheet, data, run, start_row, row, rows_to_insert, update_ops,
                   rows_added, write_ops, n_missing, sum_deltas, prev_ts, n, clock,
                   calls, errlog, sheet0, last, argv, config, estimated_seconds, proceed>>
    /\ UNCHANGED fetches
    /\ UNCHANGED import_vars

----------------------------------------------------------------------------

Next ==
    \/ Main
    \/ PlanStep
    \/ PlanDone
    \/ Confirm
    \/ CleanStep
    \/ InsertOk
    \/ InsertFail
    \/ UpdateOk
    \/ UpdateFail
    \/ CleanDone
    \/ Interrupt
    \/ Rerun

Spec == Init /\ [][Next]_vars

----------------------------------------------------------------------------
(* import.py, append_timestamps_and_extend_formula: the column letters of the
   appended range *)

\* the largest number of columns explored
MaxCols == 705

\* chr(65), ..., chr(90)
Letters == <<"A", "B", "C", "D", "E", "F", "G", "H", "I", "J", "K", "L", "M",
             "N", "O", "P", "Q", "R", "S", "T", "U", "V", "W", "X", "Y", "Z">>

\* line 305: chr(65 + remainder)
chr65(remainder) == Letters[remainder + 1]

\* divmod(x, 26) of Python, for x >= 0
divmod26(x) == [n |-> x \div 26, remainder |-> x % 26]

\* the step with divmod(n, 26) in place of divmod(n - 1, 26)
divmod_of_n(x) == divmod26(x)

\* line 304: n, remainder = divmod(n - 1, 26)
divmod_of_n_minus_1(x) == divmod26(x - 1)

\* lines 301-302: end_col_char = '', n = num_cols, for each number of columns
ColInit ==
    /\ num_cols \in 1..MaxCols
    /\ cols_n = num_cols
    /\ end_col_char = <<>>
    /\ range_name = <<>>
    /\ run = "first"
    /\ pc = "import"
    /\ argv = ArgMissing
    /\ config = "ok"
    /\ start_row = 0
    /\ sheet = <<>>
    /\ sheet0 = <<>>
    /\ data = <<>>
    /\ row = 0
    /\ rows_to_insert = 0
    /\ update_ops = 0
    /\ rows_added = 0
    /\ write_ops = 0
    /\ n_missing = 0
    /\ sum_deltas = 0
    /\ prev_ts = 0
    /\ n = 0
    /\ clock = 0
    /\ calls = 0
    /\ errlog = <<>>
    /\ reported = -1
    /\ last = NoObservation
    /\ estimated_seconds = 0
    /\ proceed = ""
    /\ exit_status = -1
    /\ fetches = 0

\* lines 303-305: one pass of `while n > 0`
ColumnStep ==
    /\ range_name = <<>>
    /\ cols_n > 0
    /\ cols_n' = divmod_of_n_minus_1(cols_n).n
    /\ end_col_char' = <<chr65(divmod_of_n_minus_1(cols_n).remainder)>> \o end_col_char
    /\ UNCHANGED <<num_cols, range_name>>
    /\ UNCHANGED clean_vars

\* line 307: the loop has ended, the letters go into range_name
ColumnDone ==
    /\ range_name = <<>>
    /\ cols_n <= 0
    /\ range_name' = end_col_char
    /\ UNCHANGED <<num_cols, cols_n, end_col_char>>
    /\ UNCHANGED clean_vars

ColNext ==
    \/ ColumnStep
    \/ ColumnDone

\* the loop is sequential code of one thread: it takes its next step
ColSpec == ColInit /\ [][ColNext]_vars /\ WF_vars(ColNext)

----------------------------------------------------------------------------
(* The decision of lines 103-109 on one row, for a range of baselines and deltas *)

\* the largest observed delta explored, hundredths of an hour
MaxDelta == 700

\* the baselines explored, hundredths of an hour: the five rows before the
\* cursor all show the same delta
TolBaselines == {50, 100, 150, 200}

\* a log whose rows show the delta b, and the last row the delta d
TolLog(b, d) == [i \in LogRows |-> IF i = MaxRows - 1 THEN Num(d) ELSE Num(b)]

\* clean_sheet stands at the last row of such a log
TolInit ==
    \E b \in TolBaselines, d \in 1..MaxDelta :
        /\ sheet = SheetOf(TolLog(b, d))
        /\ sheet0 = sheet
        /\ data = get_all_values(sheet)
        /\ row = MaxRows - 1
        /\ start_row = MaxRows - 1
        /\ argv = ArgInt(MaxRows - 1)
        /\ pc = "clean"
        /\ run = "first"
        /\ config = "ok"
        /\ rows_to_insert = 0
        /\ update_ops = 0
        /\ rows_added = 0
        /\ write_ops = 0
        /\ n_missing = 0
        /\ sum_deltas = 0
        /\ prev_ts = 0
        /\ n = 0
        /\ clock = 0
        /\ calls = 0
        /\ errlog = <<>>
        /\ reported = -1
        /\ last = NoObservation
        /\ estimated_seconds = 0
        /\ proceed = ""
        /\ exit_status = -1
        /\ fetches = 2
        /\ num_cols = 0
        /\ cols_n = 0
        /\ end_col_char = <<>>
        /\ range_name = <<>>

\* the pass of the while loop that evaluates the row
TolSpec == TolInit /\ [][CleanStep]_vars

----------------------------------------------------------------------------
(* Properties *)

\* the latest evaluation had a baseline and a numeric observed delta
Decided == last.who \in {"plan", "clean"} /\ last.avail /\ last.curr.some

\* n = round(d / b) for the baseline b = total / 5
ClaimN(total, d) == round(5 * d, total)

\* n > 1 and |d - n*b| < 0.2*b*n, both sides times 50
ClaimGap(total, d) ==
    LET nn == ClaimN(total, d)
    IN nn > 1 /\ 10 * Abs(5 * d - nn * total) < 2 * total * nn

ClaimDecision ==
    /\ last.kind \in {"gap", "no_gap"}
    /\ (last.kind = "gap") = ClaimGap(last.total, last.curr.v)
    /\ last.kind = "gap" => last.n = ClaimN(last.total, last.curr.v)

\* C1 as stated: at every cursor with an available baseline b and a numeric
\* observed delta d, clean_sheet and estimate_rows_to_insert decide GapFound(n)
\* exactly when n = round(d/b) > 1 and |d - n*b| < 0.2*b*n, and NoGap in every
\* other case.
C1_DecisionAnyBaseline == Decided => ClaimDecision

\* C1, amended: the same for every available baseline b # 0; with b = 0 the
\* division raises ZeroDivisionError and the scan ends without a decision.
C1_Decision ==
    Decided => IF last.total # 0 THEN ClaimDecision ELSE last.kind = "zero_division"

\* clean_sheet accepts the gap of 3.05 h on a baseline of 1.0 h as GapFound(3)
C1_Witness ==
    /\ Decided
    /\ last.who = "clean"
    /\ last.total = 500
    /\ last.curr.v = 305
    /\ last.kind = "gap"
    /\ last.n = 3
    /\ pc = "insert"

\* d / b = k + 0.5 for an integer k >= 0
Tie(total, d) ==
    /\ total > 0
    /\ d >= 0
    /\ (10 * d) % total = 0
    /\ ((10 * d) \div total) % 2 = 1

\* C2 as stated: whenever d/b = k + 0.5 for an integer k >= 0, n = k + 1
\* (halves go away from zero: 2.5 gives 3, 4.5 gives 5).
C2_HalfAwayFromZero ==
    (Decided /\ Tie(last.total, last.curr.v))
        => last.n = ((5 * last.curr.v) \div last.total) + 1

\* C2, amended: n is an integer nearest to d/b, and whenever d/b = k + 0.5 for
\* an integer k >= 0, n is the even one of k and k + 1 (2.5 gives 2, 3.5 gives
\* 4, 4.5 gives 4).
C2_HalfToEven ==
    (Decided /\ last.total # 0)
        => /\ 2 * Abs(5 * last.curr.v - last.n * last.total) <= Abs(last.total)
           /\ Tie(last.total, last.curr.v)
                => /\ last.n % 2 = 0
                   /\ last.n - ((5 * last.curr.v) \div last.total) \in {0, 1}

\* an observed delta of 2.5 h on a baseline of 1.0 h gives n = 2
C2_Witness ==
    /\ Decided
    /\ last.total = 500
    /\ last.curr.v = 250
    /\ last.n = 2

\* the lookback window of cursor r, and the rows of it that count
Window(r) == (r - 5)..(r - 1)

ValidAt(d, i) == i > 1 /\ i < Len(d) /\ At(d, i).C.k = "num"

WindowComplete(d, r) == \A i \in Window(r) : ValidAt(d, i)

WindowTotal(d, r) ==
    At(d, r - 5).C.v + At(d, r - 4).C.v + At(d, r - 3).C.v + At(d, r - 2).C.v
        + At(d, r - 1).C.v

\* a pass of either loop is about to evaluate the cursor
Evaluating == pc \in {"plan", "clean"} /\ row < Len(data)

\* the step is taken by the program, not by an interrupt of the user
ProgramStep == pc' # "interrupted"

\* C3: at every cursor the baseline is the mean of the deltas of the 5 rows
\* [cursor-5, cursor-1] (5 * baseline is their sum); it is available only if
\* all 5 rows have an index > 1 and a delta that parses; otherwise the cursor
\* moves on without an error.
C3_Baseline ==
    [][(Evaluating /\ ProgramStep) =>
          /\ last'.avail = WindowComplete(data, row)
          /\ WindowComplete(data, row) => last'.total = WindowTotal(data, row)
          /\ ~WindowComplete(data, row)
                => pc' = pc /\ row' = row + 1 /\ errlog' = errlog]_vars

\* a cursor past the start of the log with an unparseable delta in its window
C3_Witness ==
    /\ last.who = "clean"
    /\ last.kind = "no_baseline"
    /\ last.row >= 7
    /\ \E i \in Window(last.row) : At(data, i).C.k = "text"

ValidCount(d, r) == Cardinality({i \in Window(r) : ValidAt(d, i)})

\* C4: at every cursor with fewer than 5 valid deltas in the lookback window,
\* in particular at every cursor below 7, nothing is written to the store and
\* the cursor advances by exactly 1.
C4_IncompleteBaseline ==
    [][(Evaluating /\ ProgramStep /\ (ValidCount(data, row) < 5 \/ row < 7))
          => /\ row' = row + 1
             /\ pc' = pc
             /\ UNCHANGED <<sheet, calls, rows_added, write_ops>>]_vars

\* clean_sheet has passed a cursor below 7
C4_Witness ==
    /\ pc = "clean"
    /\ last.who = "clean"
    /\ last.kind = "no_baseline"
    /\ last.row < 7
    /\ row = last.row + 1
    /\ calls = 0

\* clean_sheet has just finished the repair of the gap found at last.row
JustRepaired ==
    /\ pc = "clean"
    /\ last.who = "clean"
    /\ last.kind = "gap"
    /\ row = last.row + last.n

\* a write of that repair failed
FailedInGap ==
    \E i \in 1..Len(errlog) :
        /\ errlog[i].run = run
        /\ errlog[i].op \in {"insert_row", "update_cell"}
        /\ errlog[i].pos > last.row

\* the timestamp of the row before the cursor of the gap
PrevTimestamp == At(data, last.row - 1).B.v

\* the k-th row below the row before the cursor, as the store holds it
Synthetic(k) == sheet[last.row + k]

\* C5 as stated: after GapFound(n) with every write successful, n-1 rows were
\* inserted, and the k-th carries prevTimestamp + k*baseline hours exactly and
\* the mark 'cleaned'.
C5_ExactTimestamps ==
    (JustRepaired /\ ~FailedInGap)
        => /\ rows_added - last.added = last.n - 1
           /\ \A k \in 1..(last.n - 1) :
                /\ Synthetic(k).G = "cleaned"
                /\ Synthetic(k).B.k = "date"
                /\ 5 * (Synthetic(k).B.v - PrevTimestamp) = 36 * last.total * k

\* C5, amended: the k-th inserted row carries prevTimestamp + k*baseline hours
\* cut down to whole seconds.
C5_Interpolation ==
    (JustRepaired /\ ~FailedInGap)
        => /\ rows_added - last.added = last.n - 1
           /\ \A k \in 1..(last.n - 1) :
                /\ Synthetic(k).G = "cleaned"
                /\ Synthetic(k).B = Date(PrevTimestamp + (36 * last.total * k) \div 5)

\* the gap of 3.05 h on a baseline of 1.0 h, repaired with two rows
C5_Witness ==
    /\ JustRepaired
    /\ ~FailedInGap
    /\ last.total = 500
    /\ last.curr.v = 305
    /\ last.n = 3
    /\ Synthetic(1).B.v = PrevTimestamp + 3600
    /\ Synthetic(2).B.v = PrevTimestamp + 7200

\* the detector's NoGap at cursor r of snapshot d
NoGapAt(d, r) ==
    /\ WindowComplete(d, r)
    /\ At(d, r).C.k = "num"
    /\ WindowTotal(d, r) # 0
    /\ ~ClaimGap(WindowTotal(d, r), At(d, r).C.v)

\* C6: every NoGap step advances the cursor by exactly 1, issues no insert and
\* no update call, and leaves the store and the snapshot unchanged.
C6_NoGapFrame ==
    [][(pc = "clean" /\ row < Len(data) /\ ProgramStep /\ NoGapAt(data, row))
          => /\ row' = row + 1
             /\ pc' = "clean"
             /\ UNCHANGED <<sheet, data, calls, rows_added, write_ops>>]_vars

\* 1.3 h on a baseline of 1.0 h: n = 1, NoGap
C6_Witness ==
    /\ pc = "clean"
    /\ last.who = "clean"
    /\ last.kind = "no_gap"
    /\ last.total = 500
    /\ last.curr.v = 130
    /\ last.n = 1
    /\ row = last.row + 1

\* nothing was logged in this invocation: no write failed, nothing was raised
NoFailureInRun == \A i \in 1..Len(errlog) : errlog[i].run # run

\* C7: the insert count and the rewrite count of estimate_rows_to_insert equal
\* the inserts and the delta rewrites that clean_sheet then performs on the
\* same snapshot when every write succeeds.
C7_PlanMatchesRun ==
    (pc = "done" /\ NoFailureInRun)
        => /\ rows_to_insert = rows_added
           /\ update_ops = write_ops - rows_added

\* the write phase of an invocation, after the planner has ended
InWritePhase == pc \in {"clean", "insert", "update", "done"}

\* C8: a second run over a sheet in which the detector finds no gap left
\* inserts nothing, rewrites no delta and leaves the store as it was.
C8_SecondRunIdle ==
    (run = "second" /\ InWritePhase /\ rows_to_insert = 0 /\ update_ops = 0)
        => /\ rows_added = 0
           /\ write_ops = 0
           /\ calls = 0
           /\ sheet = sheet0

\* the second run has ended on a sheet that the first run repaired
C8_Witness ==
    /\ run = "second"
    /\ pc = "done"
    /\ rows_to_insert = 0
    /\ update_ops = 0
    /\ NoFailureInRun
    /\ \E p \in 1..Len(sheet0) : sheet0[p].G = "cleaned"

\* C9: after GapFound(n) at cursor row the cursor resumes at row + n, which
\* (with the n-1 rows inserted) is the row after the original one; the cursor
\* grows with every pass, so every evaluation is past the rows evaluated
\* before and past the rows just inserted.
C9_Resume ==
    [][ProgramStep =>
       /\ pc = "update"
            => /\ pc' = "clean"
               /\ row' = row + n_missing
               /\ n_missing > 1
               /\ ~FailedInGap' =>
                    /\ At(data', row' - 1).B = At(data, row).B
                    /\ \A j \in row..(row' - 2) : At(data', j).G = "cleaned"
       /\ (pc = "clean" /\ pc' = "clean") => row' > row
       /\ (pc \in {"clean", "insert"} /\ pc' \in {"insert", "update"}) => row' = row
       /\ (last.who = "clean" /\ last'.who = "clean" /\ last' # last)
            => last'.row >= last.row + (IF last.kind = "gap" THEN last.n ELSE 1)]_vars

\* the cursor has resumed right after the original row of a repaired gap
C9_Witness ==
    /\ JustRepaired
    /\ ~FailedInGap
    /\ row < Len(data)
    /\ At(data, row - 1).G = ""
    /\ At(data, row - 2).G = "cleaned"
    /\ At(data, row - 1).B.v > At(data, row - 2).B.v

\* C10: a run that issued N write calls (insert and update) has slept at
\* least N * 1.2 time units when it reaches the terminal state.
C10_RateBound == pc = "done" => clock >= calls * 12

\* the step is a write call that the store rejected
FailedWrite ==
    /\ Len(errlog') = Len(errlog) + 1
    /\ errlog'[Len(errlog')].op \in {"insert_row", "update_cell"}

\* a write of this invocation was rejected
WriteFailedInRun ==
    \E i \in 1..Len(errlog) :
        errlog[i].run = run /\ errlog[i].op \in {"insert_row", "update_cell"}

\* an exception ended clean_sheet in this invocation
CleanSheetRaised ==
    \E i \in 1..Len(errlog) : errlog[i].run = run /\ errlog[i].op = "clean_sheet"

\* C11: a failing insert_row or update_cell call never aborts the run: the
\* failure is logged with the position the call addressed (the k-th insert of
\* the gap at cursor row addresses row + k, the rewrite row + n), the same
\* write is not attempted again (the loop moves to the next k, or the cursor
\* past the gap), the next write of the gap is still attempted, and a run with
\* a failed write ends its scan only with the cursor at the end of the data.
C11_WriteFailureContinues ==
    [][/\ FailedWrite =>
            /\ errlog'[Len(errlog')].run = run
            /\ exit_status' = -1
            /\ pc = "insert" =>
                /\ errlog'[Len(errlog')] = [run |-> run, op |-> "insert_row", pos |-> row + n]
                /\ n' = n + 1
                /\ row' = row
                /\ pc' = IF n + 1 < n_missing THEN "insert" ELSE "update"
            /\ pc = "update" =>
                /\ errlog'[Len(errlog')]
                      = [run |-> run, op |-> "update_cell", pos |-> row + n_missing]
                /\ row' = row + n_missing
                /\ pc' = "clean"
       /\ (WriteFailedInRun' /\ pc' = "done" /\ ~CleanSheetRaised')
            => row' >= Len(data')]_vars

\* the first insert of a gap of 3 was rejected, the second insert and the
\* rewrite were made, and the scan has reached the end of the data
C11_Witness ==
    /\ pc = "done"
    /\ row >= Len(data)
    /\ calls = 3
    /\ rows_added = 1
    /\ write_ops = 2
    /\ \E r \in 1..Len(sheet) :
          errlog = <<[run |-> "first", op |-> "insert_row", pos |-> r]>>

\* the writes that the planner predicted in this invocation
PredictedWrites == rows_to_insert + update_ops

\* C12: when the predicted duration exceeds 300 seconds (more than 250
\* predicted writes) no write is issued unless the answer to the prompt is
\* 'y'; on any other answer the process exits with status 0 and the store as
\* it was; when the prediction is 300 seconds or less the write phase starts
\* without a prompt.
C12_Confirmation ==
    [][ProgramStep =>
       /\ (pc = "plan" /\ pc' \notin {"plan", "fatal"})
            => /\ pc' = IF PredictedWrites > 250 THEN "confirm" ELSE "clean"
               /\ estimated_seconds' > 3000 <=> PredictedWrites > 250
               /\ proceed' = ""
       /\ pc = "confirm"
            => /\ proceed' # ""
               /\ calls = 0 /\ sheet = sheet0
               /\ pc' = IF proceed' = "y" THEN "clean" ELSE "aborted"
       /\ pc' = "aborted"
            => exit_status' = 0 /\ calls' = 0 /\ sheet' = sheet0' /\ proceed' # "y"
       /\ (calls' > 0 \/ sheet' # sheet0')
            => (PredictedWrites' > 250 => proceed' = "y")
       /\ (pc' \in {"clean", "insert", "update", "done"} /\ PredictedWrites' <= 250)
            => proceed' = ""]_vars

\* 251 writes were predicted and the user declined
C12_Witness ==
    /\ pc = "aborted"
    /\ PredictedWrites = 251
    /\ estimated_seconds = 3012
    /\ proceed = "n"
    /\ exit_status = 0
    /\ sheet = sheet0

\* the process has read the sheet, or written to it
TouchedStore == data # <<>> \/ calls > 0 \/ sheet # sheet0

\* the process has ended by itself (not by an interrupt of the user)
Ended == pc \in {"usage", "config_error", "fatal", "aborted", "done"}

\* C13: if the start position is missing, is no integer, or is an integer
\* that is not positive, the process exits non-zero before any read or write
\* of the store.
C13_InvalidStartRejected ==
    (argv.k # "int" \/ argv.v <= 0)
        => /\ ~TouchedStore
           /\ Ended => exit_status # 0

\* the part of C13 that the code keeps: a missing argument and an argument
\* that is no integer end the process with status 1 before any read or write
C13_UsageRejected ==
    argv.k # "int"
        => /\ ~TouchedStore
           /\ Ended => (pc = "usage" /\ exit_status = 1)

\* the run with start position 0 has cleaned the sheet and ended with status 0
C13_NonPositiveAccepted ==
    /\ argv = ArgInt(0)
    /\ pc = "done"
    /\ exit_status = 0
    /\ rows_added > 0

\* an exception that is no write failure was raised in this invocation and
\* caught by the handler of main or of clean_sheet
UnexpectedException ==
    \E i \in 1..Len(errlog) :
        errlog[i].run = run /\ errlog[i].op \in {"main", "clean_sheet"}

\* C14: an unexpected exception other than a write failure ends the process
\* with a non-zero exit status after the generic failure message, never with
\* the summary 'Cleaning complete' and never with exit status 0.
C14_FaultExitsNonZero ==
    (UnexpectedException /\ Ended)
        => /\ exit_status # 0
           /\ pc = "fatal"
           /\ reported = -1

\* what the code does: after an unexpected exception the process ends with
\* status 0, after the generic message when main caught it and after the
\* summary with 0 rows when clean_sheet caught it
C14_FaultExitsZero ==
    (UnexpectedException /\ Ended)
        => /\ exit_status = 0
           /\ \/ pc = "fatal" /\ reported = -1
              \/ pc = "done" /\ reported = 0

\* a zero baseline in the planner: main's handler, exit status 0
C14_PlannerFault ==
    /\ pc = "fatal"
    /\ last.who = "plan"
    /\ last.kind = "zero_division"
    /\ exit_status = 0

\* C15: whenever a required connection parameter is missing or invalid (the
\* 'google' section, or the target_sheet_name or credentials_json key in it)
\* the run aborts before any read or write of the store and the process
\* exits non-zero.
C15_ConfigurationRejected ==
    config # "ok"
        => /\ ~TouchedStore
           /\ Ended => exit_status # 0

\* the part of C15 that the code keeps: nothing is read or written, and a
\* missing section or a failing connection ends the process with status 1
C15_NoAccessWithoutConfiguration ==
    config # "ok"
        => /\ ~TouchedStore
           /\ (Ended /\ config \in {"no_section", "bad_credentials"}) => exit_status = 1

\* the key target_sheet_name is missing: main's handler, exit status 0
C15_MissingKey ==
    /\ config = "no_target_sheet_name"
    /\ pc = "fatal"
    /\ exit_status = 0

\* the delta of data[r] is no number
DeltaUnparsed(d, r) == At(d, r).C.k # "num"

\* the timestamp of data[r], or of the row before it, is not in the format
\* that parse_timestamp reads
TimestampUnparsed(d, r) ==
    \/ ~parse_timestamp(At(d, r).B).some
    \/ (r >= 1 /\ ~parse_timestamp(At(d, r - 1).B).some)

\* C16: a row whose delta does not parse, or whose timestamp does not parse
\* (the predecessor timestamp read when a gap is found included), never ends
\* the scan: the pass at that cursor neither ends clean_sheet nor the planner.
C16_ParseSkip ==
    [][(Evaluating /\ ProgramStep /\ row >= 0
          /\ (DeltaUnparsed(data, row) \/ TimestampUnparsed(data, row)))
            => pc' \notin {"done", "fatal"}]_vars

\* the part of C16 that the code keeps: a delta that does not parse moves the
\* cursor by 1 in both loops and ends nothing
C16_DeltaSkip ==
    [][(Evaluating /\ ProgramStep /\ row >= 0 /\ DeltaUnparsed(data, row))
            => pc' = pc /\ row' = row + 1 /\ errlog' = errlog]_vars

\* clean_sheet found a gap whose predecessor timestamp did not parse, and ended
C16_ScanEnded ==
    /\ pc = "done"
    /\ last.who = "clean"
    /\ last.kind = "gap"
    /\ row = last.row
    /\ row < Len(data) - 1
    /\ ~parse_timestamp(At(data, row - 1).B).some
    /\ CleanSheetRaised

\* C17: when the user interrupts a run, at whatever point, no write is issued
\* after the interrupt, no write applied before it is undone (the store stays
\* as the interrupt found it), and the process exits with status 0. Only a
\* new invocation of the script (run changes) leaves the interrupted state.
C17_Interrupt ==
    [][/\ pc' = "interrupted"
            => /\ sheet' = sheet
               /\ calls' = calls
               /\ rows_added' = rows_added
               /\ exit_status' = 0
       /\ (pc = "interrupted" /\ run' = run) => pc' = "interrupted"]_vars

\* interrupted in the middle of a gap of 3: one row inserted, one not yet
C17_Witness ==
    /\ pc = "interrupted"
    /\ exit_status = 0
    /\ n_missing = 3
    /\ n = 2
    /\ rows_added = last.added + 1
    /\ calls >= 1
    /\ sheet # sheet0

\* the rows that this invocation has inserted into the store
InsertedRows ==
    Cardinality({p \in 1..Len(sheet) : sheet[p].G = CLEANED_MARK})
        - Cardinality({p \in 1..Len(sheet0) : sheet0[p].G = CLEANED_MARK})

\* C18: whenever a run prints 'Cleaning complete. Rows added: <n>', n is the
\* number of rows that the run inserted into the store (the insert calls
\* that succeeded), whatever happened later in the run.
C18_ReportedCount ==
    (pc = "done" /\ reported # -1)
        => /\ reported = rows_added
           /\ reported = InsertedRows

\* the part of C18 that the code keeps: the count is right when clean_sheet
\* ends by its return statement
C18_ReportedCountOnReturn ==
    (pc = "done" /\ reported # -1 /\ ~CleanSheetRaised)
        => /\ reported = rows_added
           /\ reported = InsertedRows

\* a row was inserted, a later gap raised, and the summary says 0
C18_RowsForgotten ==
    /\ pc = "done"
    /\ reported = 0
    /\ rows_added = 1
    /\ InsertedRows = 1
    /\ CleanSheetRaised

\* the detector finds a gap at cursor r of snapshot d
GapAt(d, r) ==
    /\ WindowComplete(d, r)
    /\ At(d, r).C.k = "num"
    /\ WindowTotal(d, r) # 0
    /\ ClaimGap(WindowTotal(d, r), At(d, r).C.v)

\* C19: the planner writes nothing to the store; it starts from 0 and adds
\* n - 1 to its inserts and 1 to its rewrites for every gap it detects, and
\* nothing otherwise; the predicted duration is (inserts + rewrites) x 1.2 seconds (12 tenths).
C19_Planner ==
    [][ProgramStep =>
       /\ (pc = "main" /\ pc' = "plan") => (rows_to_insert' = 0 /\ update_ops' = 0)
       /\ pc = "plan" =>
            /\ sheet' = sheet /\ calls' = 0 /\ clock' = 0 /\ data' = get_all_values(sheet)
            /\ (row < Len(data) /\ GapAt(data, row)) =>
                  /\ rows_to_insert'
                        = rows_to_insert + ClaimN(WindowTotal(data, row), At(data, row).C.v) - 1
                  /\ update_ops' = update_ops + 1
            /\ ~(row < Len(data) /\ GapAt(data, row)) =>
                  /\ rows_to_insert' = rows_to_insert
                  /\ update_ops' = update_ops
            /\ pc' \in {"confirm", "clean"} =>
                  estimated_seconds' = 12 * (rows_to_insert + update_ops)]_vars

\* the planner has counted two gaps, of 3 and of 2: 3 inserts, 2 rewrites, 6 s
C19_Witness ==
    /\ pc = "clean"
    /\ row = start_row
    /\ calls = 0
    /\ rows_to_insert = 3
    /\ update_ops = 2
    /\ estimated_seconds = 60

\* clean_sheet is repairing the gap found at cursor row; data is still the
\* snapshot in which it was found
Repairing == pc \in {"insert", "update"} /\ last.who = "clean" /\ last.row = row

\* the rows inserted for that gap so far
InsertedForGap == rows_added - last.added

\* the synthetic rows of the gap lie right below the predecessor row, and the
\* original row, with its own timestamp, right below them
PlacedAboveOriginal ==
    /\ sheet[row].B = At(data, row - 1).B
    /\ \A j \in 1..InsertedForGap :
          sheet[row + j].G = CLEANED_MARK /\ sheet[row + j].B # At(data, row).B
    /\ sheet[row + InsertedForGap + 1].B = At(data, row).B
    /\ sheet[row + InsertedForGap + 1].G = At(data, row).G

\* C20: in every run, runs in which a write fails included, each synthetic
\* row inserted for a gap lies between the predecessor row and the original
\* anomalous row, and the original row keeps its timestamp.
C20_Placement == Repairing => PlacedAboveOriginal

\* the part of C20 that the code keeps: the placement is right as long as no
\* insert of the gap has failed
C20_PlacementWithoutFailure == (Repairing /\ ~FailedInGap) => PlacedAboveOriginal

\* the first insert of a gap of 3 failed and the second row was inserted
\* below the original row
C20_Misplaced ==
    /\ Repairing
    /\ pc = "update"
    /\ n_missing = 3
    /\ InsertedForGap = 1
    /\ sheet[row + 1].B = At(data, row).B
    /\ sheet[row + 2].G = CLEANED_MARK

\* the delta expression of position p: it references p and p - 1
OwnDelta(p) == [k |-> "formula", v |-> p, w |-> p - 1]

\* C21: after all n-1 inserts of a gap succeeded the single delta rewrite is
\* issued after the last insert and targets the original anomalous row at its
\* shifted position; afterwards each synthetic row and the original row has a
\* delta expression that references its own position and the one above it.
C21_Rewrite ==
    [][(ProgramStep /\ pc = "update" /\ Repairing /\ ~FailedInGap')
          => /\ InsertedForGap = n_missing - 1
             /\ calls' = calls + 1
             /\ pc' = "clean"
             /\ Len(sheet') = Len(sheet)
             /\ sheet'[row + n_missing].B = At(data, row).B
             /\ \A p \in 1..Len(sheet) : p # row + n_missing => sheet'[p] = sheet[p]
             /\ \A p \in (row + 1)..(row + n_missing) : sheet'[p].C = OwnDelta(p)]_vars

\* a gap of 3 repaired: two synthetic rows and the original row, each with
\* the delta expression of its own position
C21_Witness ==
    /\ JustRepaired
    /\ ~FailedInGap
    /\ last.n = 3
    /\ calls = 3
    /\ \A p \in (last.row + 1)..(last.row + 3) : sheet[p].C = OwnDelta(p)
    /\ sheet[last.row + 3].G = ""
    /\ sheet[last.row + 4].C.k = "num"

\* C22: the snapshot equals what the store shows every time a cursor is
\* evaluated; it is fetched again exactly once after the writes of each gap,
\* whether or not they succeeded, and before the next evaluation; a step that
\* writes nothing neither fetches nor changes the snapshot.
C22_SnapshotFresh ==
    [][ProgramStep =>
       /\ Evaluating => data = get_all_values(sheet)
       /\ pc = "update"
            => /\ fetches' = fetches + 1
               /\ data' = get_all_values(sheet')
               /\ pc' = "clean"
       /\ pc \in {"clean", "insert"}
            => /\ fetches' = fetches
               /\ data' = data
       /\ (pc = "clean" /\ pc' = "clean") => sheet' = sheet]_vars

\* after a gap with a failed insert the snapshot was fetched again (main,
\* the planner, the entry of clean_sheet, and once for the gap) and the next
\* cursor is evaluated on what the store shows
C22_Witness ==
    /\ JustRepaired
    /\ FailedInGap
    /\ row < Len(data)
    /\ fetches = 4
    /\ data = get_all_values(sheet)
    /\ Len(data) = Len(sheet0) + last.n - 2

\* the rows that the scan has still to pass
Distance == Len(data) - row

WriteCall == calls' = calls + 1

\* C24: between any two consecutive write calls of a run, successful or
\* failed, a full delay of 1.2 time units elapses: when a call is issued, 1.2
\* time units have passed for each call issued before it.
C24_DelayBetweenCalls == [][WriteCall => clock >= 12 * calls]_vars

\* the part of C24 that the code keeps: the delay follows every insert that
\* succeeded and every rewrite, failed or not
C24_DelayAfterCall ==
    [][(WriteCall /\ ~(FailedWrite /\ pc = "insert")) => clock' = clock + 12]_vars

\* the rewrite is about to be issued right after a failed insert: one call
\* made, no time passed
C24_NoDelay ==
    /\ pc = "update"
    /\ calls = 1
    /\ clock = 0
    /\ WriteFailedInRun

\* the timestamps of sheet sh grow strictly with the position
Increasing(sh) ==
    \A p \in 2..(Len(sh) - 1) :
        (sh[p].B.k = "date" /\ sh[p + 1].B.k = "date") => sh[p].B.v < sh[p + 1].B.v

\* a synthetic row of sheet sh lies above a row whose timestamp is not later
SyntheticBeyondOriginal(sh) ==
    \E p \in 2..(Len(sh) - 1) :
        /\ sh[p].G = CLEANED_MARK
        /\ sh[p + 1].G = ""
        /\ sh[p + 1].B.k = "date"
        /\ sh[p].B.v >= sh[p + 1].B.v

\* C25: if a run is cancelled after some but not all writes of the repair of
\* a gap, a later run from the same start position ends with timestamps
\* still strictly increasing by position and with no synthetic row whose
\* timestamp is at or beyond that of the original anomalous row.
C25_ResumeSafe ==
    (run = "resumed" /\ pc = "done" /\ WriteFailures(errlog) = 0 /\ ~CleanSheetRaised)
        => /\ Increasing(sheet)
           /\ ~SyntheticBeyondOriginal(sheet)

\* the sheets of the model that hold a repair are in order before a run is
\* cancelled: the disorder comes with the later run
C25_OrderedWhenCancelled == (CancelledInGap /\ run = "first") => Increasing(sheet)

\* the resumed run has inserted a row past the original row of the gap that
\* the cancelled run was repairing
C25_Overfilled ==
    /\ run = "resumed"
    /\ pc = "done"
    /\ errlog = <<>>
    /\ rows_added >= 1
    /\ Increasing(sheet0)
    /\ SyntheticBeyondOriginal(sheet)

----------------------------------------------------------------------------
(* C26 *)

\* the digit of a letter, "A" = 1, ..., "Z" = 26
DigitOf(letter) == CHOOSE i \in 1..26 : Letters[i] = letter

\* the number a letter string denotes in bijective base 26
RECURSIVE Bijective26(_)
Bijective26(s) ==
    IF s = <<>> THEN 0
    ELSE 26 * Bijective26(SubSeq(s, 1, Len(s) - 1)) + DigitOf(s[Len(s)])

LettersOnly(s) == \A i \in 1..Len(s) : \E d \in 1..26 : Letters[d] = s[i]

\* C26: for every number of columns n >= 1 the loop ends, and the letters it
\* leaves are the bijective base-26 numeral of n: a non-empty string over A..Z
\* whose digits (A = 1, ..., Z = 26) sum with the powers of 26 to n; 1 gives A,
\* 26 gives Z, 27 gives AA, 52 gives AZ and 53 gives BA.
C26_ColumnLetters ==
    /\ [](range_name # <<>>
            => /\ LettersOnly(range_name)
               /\ Bijective26(range_name) = num_cols
               /\ num_cols = 1 => range_name = <<"A">>
               /\ num_cols = 26 => range_name = <<"Z">>
               /\ num_cols = 27 => range_name = <<"A", "A">>
               /\ num_cols = 52 => range_name = <<"A", "Z">>
               /\ num_cols = 53 => range_name = <<"B", "A">>)
    /\ <>(range_name # <<>>)

\* the conversion of 26, the largest one-letter number, has ended
C26_Witness ==
    /\ num_cols = 26
    /\ range_name = <<"Z">>

----------------------------------------------------------------------------
(* C27 *)

\* the first invocation ended with nothing logged: every write succeeded and
\* nothing was raised
FirstRunClean == \A i \in 1..Len(errlog) : errlog[i].run # "first"

\* C27: a second run from the same start row on the store that a completed
\* run without a failed write left inserts no row, rewrites no delta and
\* leaves the store as it found it.
C27_FixedPoint ==
    (run = "second" /\ InWritePhase /\ FirstRunClean)
        => /\ rows_added = 0
           /\ write_ops = 0
           /\ calls = 0
           /\ sheet = sheet0

\* the second run has inserted a row into the store that the first run left
\* after repairing a gap with every write successful
C27_SecondRunWrites ==
    /\ run = "second"
    /\ pc = "done"
    /\ errlog = <<>>
    /\ rows_added >= 1
    /\ \E p \in 1..Len(sheet0) : sheet0[p].G = CLEANED_MARK

----------------------------------------------------------------------------
(* C28 *)

\* a gap is being repaired, or the scan is between two evaluations or has ended
BetweenRepairs == pc \in {"clean", "done"}

\* the baseline of the gap found last was positive
PositiveBaseline == (last.who = "clean" /\ last.kind = "gap") => last.total > 0

\* C28: if the timestamps were strictly increasing by position when the run
\* started, the baseline of every gap it found was positive and every write
\* succeeded, the timestamps are strictly increasing by position after every
\* repair of a gap and when the run ends.
C28_Order ==
    (BetweenRepairs /\ Increasing(sheet0) /\ PositiveBaseline /\ NoFailureInRun)
        => Increasing(sheet)

\* the same for the runs on a sheet whose deltas agree with its timestamps:
\* the first invocation, and the second after a first without a failed write
C28_OrderOnConsistentSheet ==
    (run \in {"first", "second"} /\ FirstRunClean /\ BetweenRepairs
        /\ Increasing(sheet0) /\ PositiveBaseline /\ NoFailureInRun)
        => Increasing(sheet)

----------------------------------------------------------------------------
(* C29 *)

\* the rows of the gap being repaired that its inserts have added so far
InsertedInGap == rows_added - last.added

\* the rows of snapshot d that a move of the cursor from r to r2 passes: the
\* row at r, which was evaluated, and the rows after it and before r2
Passed(d, r, r2) == {j \in r..(r2 - 1) : j < Len(d)}

\* C29: the cursor never jumps over a row that was not evaluated, also when an
\* insert of the gap fails: a pass without a repair moves the cursor by one
\* row, and the move that ends the repair of a gap passes only the evaluated
\* row and the rows that the repair inserted.
C29_NoRowSkipped ==
    [][ProgramStep =>
       /\ (pc = "clean" /\ pc' = "clean") => row' = row + 1
       /\ (pc = "update" /\ pc' = "clean")
            => Cardinality(Passed(data', row, row')) <= InsertedInGap + 1]_vars

\* the same for the gaps whose inserts all succeeded
C29_NoRowSkippedWithoutFailure ==
    [][ProgramStep =>
       /\ (pc = "clean" /\ pc' = "clean") => row' = row + 1
       /\ (pc = "update" /\ pc' = "clean" /\ ~FailedInGap')
            => Cardinality(Passed(data', row, row')) = InsertedInGap + 1]_vars

\* the repair of a gap of three intervals inserted one row of two, and the
\* cursor stands three rows further, past a row that the scan did not evaluate
C29_Skipped ==
    /\ JustRepaired
    /\ last.n = 3
    /\ InsertedInGap = 1
    /\ row = last.row + 3
    /\ row <= Len(data)

----------------------------------------------------------------------------
(* C30 *)

\* the row of the log has been evaluated on a positive baseline
ToleranceTested ==
    /\ Decided
    /\ last.who = "clean"
    /\ last.total > 0
    /\ last.kind \in {"gap", "no_gap"}

\* 1.6 * b < d < 2.4 * b for b = total / 5, all sides times 25
WithinTwenty(total, d) == 8 * total < 25 * d /\ 25 * d < 12 * total

\* C30: on a positive baseline b the tolerance test can reject only n = 2:
\* when n = round(d/b) >= 3 the decision is GapFound(n), and when n = 2 the
\* gap is accepted exactly when 1.6*b < d < 2.4*b.
C30_Tolerance ==
    ToleranceTested =>
        /\ ClaimN(last.total, last.curr.v) >= 3
             => last.kind = "gap" /\ last.n = ClaimN(last.total, last.curr.v)
        /\ ClaimN(last.total, last.curr.v) = 2
             => (last.kind = "gap") = WithinTwenty(last.total, last.curr.v)

\* what holds of the code: n >= 3 is always accepted, n = 2 is accepted inside
\* the interval and rejected outside of its closure
C30_ToleranceUpToEquality ==
    ToleranceTested =>
        /\ ClaimN(last.total, last.curr.v) >= 3
             => last.kind = "gap" /\ last.n = ClaimN(last.total, last.curr.v)
        /\ ClaimN(last.total, last.curr.v) = 2
             => /\ WithinTwenty(last.total, last.curr.v) => last.kind = "gap"
                /\ last.kind = "gap"
                     => /\ 8 * last.total <= 25 * last.curr.v
                        /\ 25 * last.curr.v <= 12 * last.total

\* a delta of 1.60 h on a baseline of 1.00 h is accepted as a gap of two
C30_AcceptedAtEquality ==
    /\ ToleranceTested
    /\ last.total = 500
    /\ last.curr.v = 160
    /\ last.kind = "gap"
    /\ last.n = 2

====
